---- MODULE Spec2Model ----
(***************************************************************************)
(* A model of validgenfinal.py: the AccountValidator object, the two       *)
(* ThreadPoolExecutor pools of run_validation, the worker threads running  *)
(* fetch_response and process_response, and the controller thread that     *)
(* submits the range, drains the fetch futures and prints the summary.     *)
(*                                                                         *)
(* The integers of the range are beyond those TLC can hold.  An integer is  *)
(* modelled by a record [at, off]: the offset off, a small integer, from   *)
(* one of three anchors: "p16" is 1000000000000000 (the default            *)
(* range_start), "p17" is 10000000000000000 and "n15" is -999999999999999. *)
(* The tasks of a run are indexed by the offset of their account number    *)
(* from the anchor of range_start.                                         *)
(*                                                                         *)
(* `self.x += 1` is a load of self.x followed by a store of the loaded     *)
(* value plus one; the interpreter may switch threads between the two, so  *)
(* every increment is two steps with the loaded value kept in a local.     *)
(***************************************************************************)
EXTENDS Integers, Sequences, FiniteSets

\* ---- bounds of the model ------------------------------------------------
\* the largest offset of range_end: a run probes 2 .. MaxLast + 1 candidates
MaxLast == 1
\* the largest fetch_workers / process_workers the menu has configured
MaxFetchWorkers == 2
MaxProcessWorkers == 2

\* ---- values ---------------------------------------------------------------
\* Python's None, a local not yet assigned, and a future holding an exception,
\* as integers outside the status codes and the counters
None == -1
Unbound == -1
Raised == -2

\* response.status_code values: the three the code names and one other
StatusCodes == {200, 404, 429, 500}

\* the offsets of the candidates a range of the model may hold: the ranges
\* of Init end at MaxLast, the widest one (InitWide) one further
Accounts == 0 .. MaxLast + 1

VARIABLES
    valid_count, checked_count, error_count, rate_limit_count,
    start_time, fetch_workers, process_workers, range_start, range_end,
    is_running,
    file,            \* the lines of valid_accounts.txt
    pc,              \* the controller thread's position in main_menu / run_validation
    total_accounts,  \* local of run_validation, Unbound until line 247
    fetch,           \* fetch[a]: the fetch_response task of account a
    proc,            \* proc[a]: the process_response task of account a
    process_queue,   \* work queue of process_executor, in submission order
    drained,         \* the fetch futures as_completed has yielded
    ctl_tmp,         \* the controller's loaded error_count (line 280)
    ending,          \* how the try block ended: "none", "interrupted", "failed"
    summary,         \* the counters the final results table printed: << >> or <<c>>
    at_start,        \* history: the counters and the file when the run passed confirmation
    in_flight,       \* history: the fetch tasks executing when KeyboardInterrupt arrived
    menu_call        \* the two answers typed in a set_custom_range / configure_threads
                     \* call, and after it the value it returned

counters == <<valid_count, checked_count, error_count, rate_limit_count>>
config == <<fetch_workers, process_workers, range_start, range_end, menu_call>>
tasks == <<fetch, proc, process_queue>>
ctl == <<pc, total_accounts, drained, ctl_tmp, ending, summary, at_start, in_flight,
         start_time, is_running>>
vars == <<counters, config, tasks, ctl, file>>

Counters == [valid |-> valid_count, checked |-> checked_count,
             errors |-> error_count, rate_limits |-> rate_limit_count]

\* what at_start records
Snapshot == [valid |-> valid_count, checked |-> checked_count,
             errors |-> error_count, rate_limits |-> rate_limit_count,
             lines |-> file]

NoFetch == [st |-> "unsubmitted", tmp |-> 0, res |-> None]
NoProc == [st |-> "none", status |-> None, tmp |-> 0, failed |-> FALSE]

\* ---- integers and their decimal strings -----------------------------------

Anchors == {"n15", "p16", "p17"}
Rank(at) == IF at = "n15" THEN 0 ELSE IF at = "p16" THEN 1 ELSE 2

\* the integer off away from anchor at
Num(at, off) == [at |-> at, off |-> off]

\* str(i) (lines 141, 251) as its sign and its number of decimal digits:
\* 10^15 + off has 16 digits from off = 0 on and 15 below, 10^16 + off has
\* 17 and 16, and -999999999999999 + off is negative with 15 digits from
\* off = 0 on and 16 below
Str(i) ==
    [neg |-> i.at = "n15",
     digits |-> IF i.at = "p16" THEN (IF i.off >= 0 THEN 16 ELSE 15)
                ELSE IF i.at = "p17" THEN (IF i.off >= 0 THEN 17 ELSE 16)
                ELSE (IF i.off >= 0 THEN 15 ELSE 16)]

\* len(s) of such a string: the minus sign is a character
StrLen(s) == s.digits + (IF s.neg THEN 1 ELSE 0)

\* i < j and i >= j on these integers; the anchors are far apart
Less(i, j) == Rank(i.at) < Rank(j.at) \/ (i.at = j.at /\ i.off < j.off)
AtLeast(i, j) == ~Less(i, j)

\* the text typed at a prompt: not a number, or the digits of an integer
\* with or without a leading "+"; int(text) raises ValueError on the first
\* and returns the integer on the others (lines 138-139, 165-166)
Typed(numeric, plus, value) == [numeric |-> numeric, plus |-> plus, value |-> value]
IsNumber(text) == text.numeric
IntOf(text) == text.value

\* the candidates of the configured range (line 251), as offsets
account_numbers == range_start.off .. range_end.off

\* the account number the task of offset a probes, as the string str(i)
Candidate(a) == Str(Num(range_start.at, a))

NoCall == [op |-> "none"]

\* __init__ (lines 73-83), followed by the menu's set_custom_range and
\* configure_threads: a session whose range and pool sizes have been set to
\* small values, and whose valid_accounts.txt may hold a line of an earlier
\* session.
Init ==
    /\ valid_count = 0 /\ checked_count = 0
    /\ error_count = 0 /\ rate_limit_count = 0
    /\ start_time = None
    /\ fetch_workers \in 1 .. MaxFetchWorkers
    /\ process_workers \in 1 .. MaxProcessWorkers
    /\ \E first \in 0 .. MaxLast - 1 : \E last \in first + 1 .. MaxLast :
          /\ range_start = Num("p16", first)
          /\ range_end = Num("p16", last)
    /\ menu_call = NoCall
    /\ is_running = FALSE
    /\ file \in {<< >>, <<0>>}
    /\ pc = "menu"
    /\ total_accounts = Unbound
    /\ fetch = [a \in Accounts |-> NoFetch]
    /\ proc = [a \in Accounts |-> NoProc]
    /\ process_queue = << >>
    /\ drained = {}
    /\ ctl_tmp = 0
    /\ ending = "none"
    /\ summary = << >>
    /\ at_start = Snapshot
    /\ in_flight = {}

\* ---- the fetch pool (fetch_executor, line 253) ----------------------------

Submitted == {a \in Accounts : fetch[a].st # "unsubmitted"}
FetchPending == {a \in Accounts : fetch[a].st = "pending"}
FetchBusy == {a \in Accounts : fetch[a].st \in {"running", "counting"}}
FetchDone == {a \in Accounts : fetch[a].st = "done"}

\* a pool that starts a thread for every submitted task
FetchWorkerFree_Unbounded == TRUE

\* ThreadPoolExecutor(max_workers=self.fetch_workers): a queued task starts
\* only while fewer than max_workers threads are executing one
FetchWorkerFree == Cardinality(FetchBusy) < fetch_workers

\* the pool's work queue is first-in first-out and the range is submitted in
\* ascending order, so the next task to start is the least pending one
FetchStart(a) ==
    /\ fetch[a].st = "pending"
    /\ \A b \in FetchPending : a <= b
    /\ FetchWorkerFree
    /\ fetch' = [fetch EXCEPT ![a].st = "running"]
    /\ UNCHANGED <<counters, config, proc, process_queue, ctl, file>>

\* requests.get returns or raises (lines 181-185): a status code, then the
\* load of checked_count; a RequestException, then the load of error_count;
\* any other exception leaves fetch_response and is kept by the future
FetchRespond(a) ==
    /\ fetch[a].st = "running"
    /\ \E r \in StatusCodes \cup {None, Raised} :
          fetch' = [fetch EXCEPT ![a] =
                      IF r = Raised THEN [st |-> "done", tmp |-> 0, res |-> Raised]
                      ELSE IF r = None
                        THEN [st |-> "counting", tmp |-> error_count, res |-> None]
                        ELSE [st |-> "counting", tmp |-> checked_count, res |-> r]]
    /\ UNCHANGED <<counters, config, proc, process_queue, ctl, file>>

\* the store of the increment and the return (lines 182-183, 185-187)
FetchStore(a) ==
    /\ fetch[a].st = "counting"
    /\ IF fetch[a].res = None
         THEN /\ error_count' = fetch[a].tmp + 1
              /\ UNCHANGED checked_count
         ELSE /\ checked_count' = fetch[a].tmp + 1
              /\ UNCHANGED error_count
    /\ fetch' = [fetch EXCEPT ![a].st = "done", ![a].tmp = 0]
    /\ UNCHANGED <<valid_count, rate_limit_count, config, proc, process_queue, ctl, file>>

\* ---- the process pool (process_executor, line 254) ------------------------

ProcBusy == {a \in Accounts : proc[a].st \in {"running", "appended", "counting"}}
ProcActive == ProcBusy \cup {a \in Accounts : proc[a].st = "pending"}
ProcDone == {a \in Accounts : proc[a].st = "done"}

\* ThreadPoolExecutor(max_workers=self.process_workers)
ProcessWorkerFree == Cardinality(ProcBusy) < process_workers

ProcStart ==
    /\ process_queue # << >>
    /\ ProcessWorkerFree
    /\ proc' = [proc EXCEPT ![Head(process_queue)].st = "running"]
    /\ process_queue' = Tail(process_queue)
    /\ UNCHANGED <<counters, config, fetch, ctl, file>>

\* what a successful open(VALID_ACCOUNTS, "a") / write leaves in the file
\* (lines 193-194)
AppendLine(lines, account_number) == Append(lines, account_number)

\* CounterOf with the 404 branch missing: every status but 200 takes the 429 path
CounterOf_No404(status_code) ==
    IF status_code = 200 THEN "valid" ELSE "rate_limits"

\* which counter process_response increments for a status code, if any
\* (lines 192-206)
CounterOf(status_code) ==
    IF status_code = 200 THEN "valid"
    ELSE IF status_code = 429 THEN "rate_limits"
    ELSE "none"

\* process_response up to its first load of a counter (lines 191-206): for
\* 200 the append, which succeeds or raises (the except clause of line 208
\* then loads error_count); for 429 the load of rate_limit_count; 404 and
\* every other status return at once
ProcRun(a) ==
    /\ proc[a].st = "running"
    /\ \/ /\ CounterOf(proc[a].status) = "valid"
          /\ \/ /\ file' = AppendLine(file, a)
                /\ proc' = [proc EXCEPT ![a].st = "appended"]
             \/ /\ proc' = [proc EXCEPT ![a].st = "counting", ![a].failed = TRUE,
                                         ![a].tmp = error_count]
                /\ UNCHANGED file
       \/ /\ CounterOf(proc[a].status) = "rate_limits"
          /\ proc' = [proc EXCEPT ![a].st = "counting", ![a].tmp = rate_limit_count]
          /\ UNCHANGED file
       \/ /\ CounterOf(proc[a].status) = "none"
          /\ proc' = [proc EXCEPT ![a].st = "done"]
          /\ UNCHANGED file
    /\ UNCHANGED <<counters, config, fetch, process_queue, ctl>>

\* the load of valid_count after the append (line 195)
ProcLoadValid(a) ==
    /\ proc[a].st = "appended"
    /\ proc' = [proc EXCEPT ![a].st = "counting", ![a].tmp = valid_count]
    /\ UNCHANGED <<counters, config, fetch, process_queue, ctl, file>>

\* the store of the increment (lines 195, 199, 209) and the return
ProcStore(a) ==
    /\ proc[a].st = "counting"
    /\ IF proc[a].failed
         THEN /\ error_count' = proc[a].tmp + 1
              /\ UNCHANGED <<valid_count, rate_limit_count>>
         ELSE IF CounterOf(proc[a].status) = "valid"
           THEN /\ valid_count' = proc[a].tmp + 1
                /\ UNCHANGED <<error_count, rate_limit_count>>
           ELSE /\ rate_limit_count' = proc[a].tmp + 1
                /\ UNCHANGED <<error_count, valid_count>>
    /\ proc' = [proc EXCEPT ![a].st = "done", ![a].tmp = 0]
    /\ UNCHANGED <<checked_count, config, fetch, process_queue, ctl, file>>

\* ---- the controller thread (main_menu, run_validation) --------------------

\* setup_files opening the file with "a": the earlier lines stay
setup_files_Append == file

\* setup_files (lines 66-70): open(VALID_ACCOUNTS, "w") leaves the file empty
setup_files == << >>

\* the ranges whose runs the model follows: both bounds by the same anchor
\* and every candidate among Accounts
Runnable ==
    /\ range_start.at = range_end.at
    /\ account_numbers \subseteq Accounts

\* menu choice 1 (lines 344-345) up to the confirmation prompt (lines 214-230)
RunValidation ==
    /\ pc = "menu"
    /\ Runnable
    /\ file' = setup_files
    /\ pc' = "confirm"
    /\ UNCHANGED <<counters, config, tasks, total_accounts, drained, ctl_tmp, ending,
                   summary, at_start, in_flight, start_time, is_running>>

\* Confirm.ask (lines 230-235): declined, run_validation returns to the menu;
\* accepted, the run starts.  time.time() is the number of the run.
Confirm ==
    /\ pc = "confirm"
    /\ \E answer \in BOOLEAN :
          IF answer
            THEN /\ is_running' = TRUE
                 /\ start_time' = IF start_time = None THEN 1 ELSE start_time + 1
                 /\ at_start' = Snapshot
                 /\ pc' = "progress"
            ELSE /\ pc' = "menu"
                 /\ UNCHANGED <<is_running, start_time, at_start>>
    /\ UNCHANGED <<counters, config, tasks, total_accounts, drained, ctl_tmp, ending,
                   summary, in_flight, file>>

\* the Progress display is built and entered, total_accounts is bound
\* (lines 239-247)
EnterProgress ==
    /\ pc = "progress"
    /\ total_accounts' = range_end.off - range_start.off + 1
    /\ pc' = "add_task"
    /\ UNCHANGED <<counters, config, tasks, drained, ctl_tmp, ending, summary,
                   at_start, in_flight, start_time, is_running, file>>

\* progress.add_task, the generator and the two executors (lines 248-254)
CreatePools ==
    /\ pc = "add_task"
    /\ pc' = "submit"
    /\ UNCHANGED <<counters, config, tasks, total_accounts, drained, ctl_tmp, ending,
                   summary, at_start, in_flight, start_time, is_running, file>>

\* a generator that yields the remaining candidates in any order
NextAccount_AnyOrder(a) == a \in account_numbers \ Submitted

\* the next item of the generator over range(range_start, range_end + 1)
\* (line 251): the least candidate not yet yielded
NextAccount(a) ==
    /\ a \in account_numbers \ Submitted
    /\ \A b \in account_numbers \ Submitted : a <= b

\* one fetch_executor.submit of the dict comprehension (lines 256-259); after
\* the last one the as_completed loop begins
Submit(a) ==
    /\ pc = "submit"
    /\ NextAccount(a)
    /\ fetch' = [fetch EXCEPT ![a].st = "pending"]
    /\ pc' = IF account_numbers \ Submitted = {a} THEN "drain" ELSE "submit"
    /\ UNCHANGED <<counters, config, proc, process_queue, total_accounts, drained,
                   ctl_tmp, ending, summary, at_start, in_flight, start_time,
                   is_running, file>>

\* as_completed yielding a future as soon as its request has been answered
FutureDone_Answered(a) == fetch[a].st \in {"counting", "done"}

\* as_completed (line 262) yields a future only when its call has returned
\* or raised
FutureDone(a) == fetch[a].st = "done"

\* a loop that submits every outcome to the process pool
HasStatus_Always(status_code) == TRUE

\* the test of line 265: status_code is not None
HasStatus(status_code) == status_code # None

\* one iteration of the as_completed loop (lines 262-280) for a finished
\* future: result() returns and an outcome with a status code is submitted to
\* process_executor, or result() raises and the handler loads error_count
Drain(a) ==
    /\ pc = "drain"
    /\ a \in Submitted \ drained
    /\ FutureDone(a)
    /\ drained' = drained \cup {a}
    /\ IF fetch[a].res = Raised
         THEN /\ ctl_tmp' = error_count
              /\ pc' = "ctl_err"
              /\ UNCHANGED <<proc, process_queue>>
         ELSE IF HasStatus(fetch[a].res)
           THEN /\ proc' = [proc EXCEPT ![a].st = "pending", ![a].status = fetch[a].res]
                /\ process_queue' = Append(process_queue, a)
                /\ UNCHANGED <<pc, ctl_tmp>>
           ELSE UNCHANGED <<proc, process_queue, pc, ctl_tmp>>
    /\ UNCHANGED <<counters, config, fetch, total_accounts, ending, summary, at_start,
                   in_flight, start_time, is_running, file>>

\* the store of the handler's increment (line 280)
CtlStore ==
    /\ pc = "ctl_err"
    /\ error_count' = ctl_tmp + 1
    /\ ctl_tmp' = 0
    /\ pc' = "drain"
    /\ UNCHANGED <<valid_count, checked_count, rate_limit_count, config, tasks,
                   total_accounts, drained, ending, summary, at_start, in_flight,
                   start_time, is_running, file>>

\* as_completed is exhausted: every submitted future has been yielded
DrainEnd ==
    /\ pc = "drain"
    /\ drained = Submitted
    /\ pc' = "exit_process"
    /\ UNCHANGED <<counters, config, tasks, total_accounts, drained, ctl_tmp, ending,
                   summary, at_start, in_flight, start_time, is_running, file>>

\* shutdown(wait=False): the controller does not join the workers
ProcessPoolIdle_NoWait == TRUE

\* process_executor.__exit__ is shutdown(wait=True): it joins the workers,
\* which first run every queued task (line 254)
ProcessPoolIdle == ProcActive = {}

ExitProcess ==
    /\ pc = "exit_process"
    /\ ProcessPoolIdle
    /\ pc' = "exit_fetch"
    /\ UNCHANGED <<counters, config, tasks, total_accounts, drained, ctl_tmp, ending,
                   summary, at_start, in_flight, start_time, is_running, file>>

\* fetch_executor.__exit__ is shutdown(wait=True) too: queued fetch tasks are
\* not cancelled, the join returns when all of them have run (line 253)
FetchPoolIdle == Submitted = FetchDone

ExitFetch ==
    /\ pc = "exit_fetch"
    /\ FetchPoolIdle
    /\ pc' = "finally"
    /\ UNCHANGED <<counters, config, tasks, total_accounts, drained, ctl_tmp, ending,
                   summary, at_start, in_flight, start_time, is_running, file>>

\* where a KeyboardInterrupt raised in the controller thread goes (lines
\* 237-285): inside the executors' with blocks to their __exit__, outside them
\* to the handler and the finally block
InterruptTarget ==
    IF pc \in {"progress", "add_task"} THEN "finally"
    ELSE IF pc = "exit_process" THEN "exit_fetch"
    ELSE "exit_process"

\* Ctrl-C while the controller is inside the try block; one signal per run
KeyboardInterrupt ==
    /\ pc \in {"progress", "add_task", "submit", "drain", "ctl_err", "exit_process"}
    /\ ending = "none"
    /\ ending' = "interrupted"
    /\ in_flight' = FetchBusy
    /\ pc' = InterruptTarget
    /\ UNCHANGED <<counters, config, tasks, total_accounts, drained, ctl_tmp, summary,
                   at_start, start_time, is_running, file>>

\* an exception raised by the progress display before the executors exist
\* (lines 239-248), caught at line 286
Fault ==
    /\ pc \in {"progress", "add_task"}
    /\ ending = "none"
    /\ ending' = "failed"
    /\ pc' = "finally"
    /\ UNCHANGED <<counters, config, tasks, total_accounts, drained, ctl_tmp, summary,
                   at_start, in_flight, start_time, is_running, file>>

\* the finally block (lines 289-312): line 300 reads total_accounts, which
\* raises NameError when the try block ended before line 247; the error
\* leaves run_validation and main_menu and ends the program (line 371)
Finally ==
    /\ pc = "finally"
    /\ is_running' = FALSE
    /\ IF total_accounts = Unbound
         THEN /\ pc' = "crashed"
              /\ UNCHANGED summary
         ELSE /\ summary' = <<Counters>>
              /\ pc' = "returned"
    /\ UNCHANGED <<counters, config, tasks, total_accounts, drained, ctl_tmp, ending,
                   at_start, in_flight, start_time, file>>

Next ==
    \/ RunValidation
    \/ Confirm
    \/ EnterProgress
    \/ CreatePools
    \/ \E a \in Accounts : Submit(a)
    \/ \E a \in Accounts : FetchStart(a)
    \/ \E a \in Accounts : FetchRespond(a)
    \/ \E a \in Accounts : FetchStore(a)
    \/ \E a \in Accounts : Drain(a)
    \/ CtlStore
    \/ DrainEnd
    \/ ProcStart
    \/ \E a \in Accounts : ProcRun(a)
    \/ \E a \in Accounts : ProcLoadValid(a)
    \/ \E a \in Accounts : ProcStore(a)
    \/ ExitProcess
    \/ ExitFetch
    \/ KeyboardInterrupt
    \/ Fault
    \/ Finally

Spec == Init /\ [][Next]_vars

\* ---- the configuration menu (set_custom_range, configure_threads) ----------

\* the width set_custom_range asks for (line 141)
AccountWidth == 16
\* the largest pool sizes configure_threads stores (lines 168-169)
FetchLimit == 50
ProcessLimit == 20
\* the settings of __init__ (lines 79-82); the default range_end is
\* 1000000000009999
DefaultFetchWorkers == 10
DefaultProcessWorkers == 5
DefaultLast == 9999

\* the answers typed at the two range prompts: every integer the model
\* holds, with or without a "+" in front, and a text that is no number
RangeTexts ==
    {Typed(TRUE, plus, Num(at, off)) :
        plus \in BOOLEAN, at \in Anchors, off \in -1 .. MaxLast}
        \cup {Typed(FALSE, FALSE, Num("p16", 0))}

\* the two tests of set_custom_range on the parsed bounds (lines 141-147)
RangeAccepted(start, end) ==
    /\ ~(StrLen(Str(start)) # AccountWidth \/ StrLen(Str(end)) # AccountWidth)
    /\ ~AtLeast(start, end)

\* menu choice 2 (lines 348-349) and the two prompts of set_custom_range
\* (lines 135-136)
AskRange ==
    /\ pc = "menu"
    /\ \E start \in RangeTexts : \E end \in RangeTexts :
          menu_call' = [op |-> "set_custom_range", a |-> start, b |-> end]
    /\ pc' = "set_custom_range"
    /\ UNCHANGED <<counters, fetch_workers, process_workers, range_start, range_end,
                   tasks, total_accounts, drained, ctl_tmp, ending, summary, at_start,
                   in_flight, start_time, is_running, file>>

\* the rest of set_custom_range (lines 138-156): a ValueError of int() and
\* either failed test return False with the range as it was
SetCustomRange ==
    /\ pc = "set_custom_range"
    /\ LET ok == /\ IsNumber(menu_call.a) /\ IsNumber(menu_call.b)
                 /\ RangeAccepted(IntOf(menu_call.a), IntOf(menu_call.b))
       IN  /\ range_start' = IF ok THEN IntOf(menu_call.a) ELSE range_start
           /\ range_end' = IF ok THEN IntOf(menu_call.b) ELSE range_end
           /\ menu_call' = [op |-> "returned", ok |-> ok]
    /\ pc' = "menu"
    /\ UNCHANGED <<counters, fetch_workers, process_workers, tasks, total_accounts,
                   drained, ctl_tmp, ending, summary, at_start, in_flight, start_time,
                   is_running, file>>

\* the answers typed at the two worker prompts
ThreadTexts ==
    {Typed(TRUE, FALSE, n) :
        n \in (-1 .. MaxFetchWorkers) \cup (-1 .. MaxProcessWorkers)
               \cup {ProcessLimit, ProcessLimit + 1, FetchLimit, FetchLimit + 1}}
        \cup {Typed(FALSE, FALSE, 0)}

\* a clamp that forgets the lower bound
Clamp_NoFloor(n, limit) == IF n < limit THEN n ELSE limit

\* max(1, min(n, limit)) (lines 168-169)
Clamp(n, limit) ==
    LET least == IF n < limit THEN n ELSE limit
    IN  IF 1 > least THEN 1 ELSE least

\* menu choice 3 (lines 352-353) and the two prompts of configure_threads
\* (lines 162-163)
AskThreads ==
    /\ pc = "menu"
    /\ \E fetch_text \in ThreadTexts : \E process_text \in ThreadTexts :
          menu_call' = [op |-> "configure_threads", a |-> fetch_text, b |-> process_text]
    /\ pc' = "configure_threads"
    /\ UNCHANGED <<counters, fetch_workers, process_workers, range_start, range_end,
                   tasks, total_accounts, drained, ctl_tmp, ending, summary, at_start,
                   in_flight, start_time, is_running, file>>

\* the rest of configure_threads (lines 165-176): both answers are parsed
\* before either setting is stored
ConfigureThreads ==
    /\ pc = "configure_threads"
    /\ LET ok == IsNumber(menu_call.a) /\ IsNumber(menu_call.b)
       IN  /\ fetch_workers' =
                 IF ok THEN Clamp(IntOf(menu_call.a), FetchLimit) ELSE fetch_workers
           /\ process_workers' =
                 IF ok THEN Clamp(IntOf(menu_call.b), ProcessLimit) ELSE process_workers
           /\ menu_call' = [op |-> "returned", ok |-> ok]
    /\ pc' = "menu"
    /\ UNCHANGED <<counters, range_start, range_end, tasks, total_accounts, drained,
                   ctl_tmp, ending, summary, at_start, in_flight, start_time,
                   is_running, file>>

\* __init__ (lines 73-83) as main_menu calls it (line 316); the file may hold
\* a line of an earlier session
InitConfig ==
    /\ valid_count = 0 /\ checked_count = 0
    /\ error_count = 0 /\ rate_limit_count = 0
    /\ start_time = None
    /\ fetch_workers = DefaultFetchWorkers
    /\ process_workers = DefaultProcessWorkers
    /\ range_start = Num("p16", 0)
    /\ range_end = Num("p16", DefaultLast)
    /\ menu_call = NoCall
    /\ is_running = FALSE
    /\ file \in {<< >>, <<0>>}
    /\ pc = "menu"
    /\ total_accounts = Unbound
    /\ fetch = [a \in Accounts |-> NoFetch]
    /\ proc = [a \in Accounts |-> NoProc]
    /\ process_queue = << >>
    /\ drained = {}
    /\ ctl_tmp = 0
    /\ ending = "none"
    /\ summary = << >>
    /\ at_start = Snapshot
    /\ in_flight = {}

NextConfig ==
    \/ AskRange
    \/ SetCustomRange
    \/ AskThreads
    \/ ConfigureThreads

SpecConfig == InitConfig /\ [][NextConfig]_vars

\* ---- a session of several runs ---------------------------------------------

\* the runs of one session the model follows
MaxRuns == 2

\* run_validation has returned: "Press Enter to continue" (line 346) and the
\* menu loop (line 335) comes round again.  The locals of the call, its
\* futures and its executors are gone; the validator's fields stay as they
\* are.
Continue ==
    /\ pc = "returned"
    /\ start_time < MaxRuns
    /\ pc' = "menu"
    /\ total_accounts' = Unbound
    /\ fetch' = [a \in Accounts |-> NoFetch]
    /\ proc' = [a \in Accounts |-> NoProc]
    /\ process_queue' = << >>
    /\ drained' = {}
    /\ ctl_tmp' = 0
    /\ ending' = "none"
    /\ in_flight' = {}
    /\ UNCHANGED <<counters, config, summary, at_start, start_time, is_running, file>>

\* a session whose pools have been set to one worker each
InitSession ==
    /\ Init
    /\ fetch_workers = 1
    /\ process_workers = 1

\* the menu loop (lines 335-363): the range is set and runs are made, in any
\* order
NextSession ==
    \/ AskRange
    \/ SetCustomRange
    \/ Continue
    \/ Next

SpecSession == InitSession /\ [][NextSession]_vars

\* ---- one run over the widest range ----------------------------------------

\* as Init, the range holding every candidate of Accounts and the file empty
InitWide ==
    /\ valid_count = 0 /\ checked_count = 0
    /\ error_count = 0 /\ rate_limit_count = 0
    /\ start_time = None
    /\ fetch_workers \in 1 .. MaxFetchWorkers
    /\ process_workers = 1
    /\ range_start = Num("p16", 0)
    /\ range_end = Num("p16", MaxLast + 1)
    /\ menu_call = NoCall
    /\ is_running = FALSE
    /\ file = << >>
    /\ pc = "menu"
    /\ total_accounts = Unbound
    /\ fetch = [a \in Accounts |-> NoFetch]
    /\ proc = [a \in Accounts |-> NoProc]
    /\ process_queue = << >>
    /\ drained = {}
    /\ ctl_tmp = 0
    /\ ending = "none"
    /\ summary = << >>
    /\ at_start = Snapshot
    /\ in_flight = {}

SpecWide == InitWide /\ [][Next]_vars

\* ---- process_response on its own -------------------------------------------
\* One call of process_response run to completion with no other thread
\* writing: the controller waits in process_executor's shutdown, the fetch
\* tasks are over, and the one outcome with a status code has just been
\* submitted.  The counters hold what earlier work left in them; at_start
\* records them, and the file, as the call is made.

\* the largest value a counter holds when the call is made
MaxCount == 1

InitProcess ==
    /\ valid_count \in 0 .. MaxCount /\ checked_count \in 0 .. MaxCount
    /\ error_count \in 0 .. MaxCount /\ rate_limit_count \in 0 .. MaxCount
    /\ start_time = 1
    /\ fetch_workers = 1 /\ process_workers = 1
    /\ range_start = Num("p16", 0) /\ range_end = Num("p16", 1)
    /\ menu_call = NoCall
    /\ is_running = TRUE
    /\ file \in {<< >>, <<0>>}
    /\ pc = "exit_process"
    /\ total_accounts = 2
    /\ \E a \in 0 .. 1 : \E status_code \in StatusCodes :
          /\ fetch = [b \in Accounts |->
                        IF b = a THEN [st |-> "done", tmp |-> 0, res |-> status_code]
                        ELSE IF b = 1 - a THEN [st |-> "done", tmp |-> 0, res |-> None]
                        ELSE NoFetch]
          /\ proc = [b \in Accounts |->
                       IF b = a THEN [NoProc EXCEPT !.st = "pending", !.status = status_code]
                       ELSE NoProc]
          /\ process_queue = <<a>>
    /\ drained = 0 .. 1
    /\ ctl_tmp = 0
    /\ ending = "none"
    /\ summary = << >>
    /\ at_start = Snapshot
    /\ in_flight = {}

NextProcess ==
    \/ ProcStart
    \/ \E a \in Accounts : ProcRun(a)
    \/ \E a \in Accounts : ProcLoadValid(a)
    \/ \E a \in Accounts : ProcStore(a)

SpecProcess == InitProcess /\ [][NextProcess]_vars

\* ---- the claims -------------------------------------------------------------

\* the increments each counter has been issued since the run began
IssuedChecked == Cardinality({a \in FetchDone : fetch[a].res \in StatusCodes})
IssuedValid ==
    Cardinality({a \in ProcDone : CounterOf(proc[a].status) = "valid" /\ ~proc[a].failed})
IssuedRateLimits ==
    Cardinality({a \in ProcDone : CounterOf(proc[a].status) = "rate_limits"})
TransportFailures == {a \in FetchDone : fetch[a].res = None}
ProcessFailures == {a \in ProcDone : proc[a].failed}
HandledRaises == {a \in drained : fetch[a].res = Raised /\ ~(pc = "ctl_err")}
IssuedErrors ==
    Cardinality(TransportFailures) + Cardinality(ProcessFailures)
        + Cardinality(HandledRaises)

\* the run has returned from run_validation without a KeyboardInterrupt or fault
CompletedRun == pc = "returned" /\ ending = "none"

\* the try block is past the as_completed loop, which no signal cut short:
\* all N fetch tasks have completed and been drained
AllDrained ==
    /\ pc \in {"exit_process", "exit_fetch", "finally", "returned"}
    /\ ending = "none"

\* C1: once all N fetch tasks of an uninterrupted run have completed and been
\* drained, checked_count has increased by exactly N, whatever the outcomes
\* (status codes or transport failures), the completion order and the pool
\* sizes.
C1_CheckedCountsEveryProbe ==
    AllDrained => checked_count - at_start.checked = total_accounts

\* the effect of a finished call of process_response on the four counters
\* and the file, as differences from what at_start recorded
DeltaValid == valid_count - at_start.valid
DeltaChecked == checked_count - at_start.checked
DeltaErrors == error_count - at_start.errors
DeltaRateLimits == rate_limit_count - at_start.rate_limits
NoCounterChanged ==
    DeltaValid = 0 /\ DeltaChecked = 0 /\ DeltaErrors = 0 /\ DeltaRateLimits = 0

\* C2 (as claimed): process_response has exactly the side effect of its
\* status: 200 appends exactly the candidate's line, adds one to valid_count
\* and changes no other counter; 404 changes neither the file nor a counter;
\* 429 adds one to rate_limit_count and changes nothing else; any other
\* status changes neither valid_count, rate_limit_count nor the file.
C2_EffectByStatus ==
    \A a \in ProcDone :
        /\ proc[a].status = 200 =>
              /\ file = Append(at_start.lines, a)
              /\ DeltaValid = 1 /\ DeltaChecked = 0
              /\ DeltaErrors = 0 /\ DeltaRateLimits = 0
        /\ proc[a].status = 404 => file = at_start.lines /\ NoCounterChanged
        /\ proc[a].status = 429 =>
              /\ file = at_start.lines
              /\ DeltaRateLimits = 1 /\ DeltaValid = 0
              /\ DeltaChecked = 0 /\ DeltaErrors = 0
        /\ proc[a].status \notin {200, 404, 429} =>
              file = at_start.lines /\ DeltaValid = 0 /\ DeltaRateLimits = 0

\* C2 (amended): as claimed, except that for status 200 the effect is the one
\* claimed only when the append succeeds; when the append raises, the call
\* adds one to error_count and changes neither the file nor another counter.
C2_EffectByStatusOrFailure ==
    \A a \in ProcDone :
        /\ (proc[a].status = 200 /\ ~proc[a].failed) =>
              /\ file = Append(at_start.lines, a)
              /\ DeltaValid = 1 /\ DeltaChecked = 0
              /\ DeltaErrors = 0 /\ DeltaRateLimits = 0
        /\ (proc[a].status = 200 /\ proc[a].failed) =>
              /\ file = at_start.lines
              /\ DeltaErrors = 1 /\ DeltaValid = 0
              /\ DeltaChecked = 0 /\ DeltaRateLimits = 0
        /\ proc[a].status = 404 => file = at_start.lines /\ NoCounterChanged
        /\ proc[a].status = 429 =>
              /\ file = at_start.lines
              /\ DeltaRateLimits = 1 /\ DeltaValid = 0
              /\ DeltaChecked = 0 /\ DeltaErrors = 0
        /\ proc[a].status \notin {200, 404, 429} =>
              file = at_start.lines /\ NoCounterChanged

\* a call for status 200 has finished after appending to a file that already
\* held a line, with counters that were not zero
C2_Witness ==
    \E a \in ProcDone :
        /\ proc[a].status = 200 /\ ~proc[a].failed
        /\ at_start.lines # << >> /\ at_start.valid > 0
        /\ pc = "exit_process" /\ Cardinality(FetchDone) = 2

\* C3: no counter loses an increment: at the end of an uninterrupted run each
\* of valid_count, checked_count, error_count and rate_limit_count has grown
\* by the number of increments the worker threads and the controller issued
\* on it, in every interleaving.
C3_NoLostUpdates ==
    CompletedRun =>
        /\ valid_count - at_start.valid = IssuedValid
        /\ checked_count - at_start.checked = IssuedChecked
        /\ error_count - at_start.errors = IssuedErrors
        /\ rate_limit_count - at_start.rate_limits = IssuedRateLimits

\* C4: after a KeyboardInterrupt during the run, no fetch task that had not
\* begun executing starts a probe: a task queued when the signal has been
\* observed stays queued.
C4_QueuedFetchAbandoned ==
    [][ending = "interrupted" =>
          \A a \in Accounts : fetch[a].st = "pending" => fetch'[a].st = "pending"]_vars

\* C5: in an interrupted run no outcome of a fetch task that was in flight at
\* the signal is dropped: when the run has returned, every such task that
\* completed with a status code has been handed to process_response.
C5_InFlightOutcomesProcessed ==
    (pc = "returned" /\ ending = "interrupted") =>
        \A a \in in_flight :
            fetch[a].res \in StatusCodes => proc[a].st # "none"

\* C6: in an uninterrupted run the finally block is reached, and the summary
\* reads the counters, only after every submitted fetch task has completed
\* and been drained and every process_response task submitted to the process
\* pool has finished: none is pending or running.
C6_SummaryAfterAllTasks ==
    (pc \in {"finally", "returned", "crashed"} /\ ending # "interrupted") =>
        /\ Submitted = FetchDone
        /\ drained = Submitted
        /\ ProcActive = {}
        /\ \A a \in Submitted : fetch[a].res \in StatusCodes => proc[a].st = "done"

\* an uninterrupted run has printed its summary after probing the whole
\* range and processing at least one outcome
C6_Witness ==
    /\ CompletedRun /\ summary # << >>
    /\ FetchDone = account_numbers
    /\ ProcDone # {}

\* C7: every run that passed the confirmation and is over has printed the
\* final summary, and is_running is false, however the try block ended.
C7_SummaryAlwaysPrinted ==
    pc \in {"returned", "crashed"} => (summary # << >> /\ ~is_running)

\* C8: a failure on one candidate is isolated: at the end of an
\* uninterrupted run error_count has grown by exactly one for each transport
\* failure, each exception inside process_response and each exception the
\* drain loop caught, the failed candidates added nothing to valid_count,
\* rate_limit_count or the file, and every candidate of the range was probed
\* and, if it returned a status code, processed.
C8_FailuresIsolated ==
    CompletedRun =>
        /\ FetchDone = account_numbers
        /\ \A a \in account_numbers :
              fetch[a].res \in StatusCodes => proc[a].st = "done"
        /\ error_count - at_start.errors = IssuedErrors
        /\ \A a \in TransportFailures \cup ProcessFailures \cup HandledRaises :
              \A i \in 1 .. Len(file) : file[i] # a

\* C9: in every state at most fetch_workers fetch_response tasks and at most
\* process_workers process_response tasks are executing.
C9_PoolsBounded ==
    /\ Cardinality(FetchBusy) <= fetch_workers
    /\ Cardinality(ProcBusy) <= process_workers

\* the whole range is submitted, every fetch worker is busy and a task still
\* waits in the queue
C9_Witness ==
    /\ pc = "drain"
    /\ Cardinality(FetchBusy) = fetch_workers /\ FetchPending # {}
    /\ Submitted = account_numbers

\* the number of lines of the file that hold account a
LinesOf(a) == Cardinality({i \in 1 .. Len(file) : file[i] = a})

\* C10: at the end of an uninterrupted run in which no append failed, the
\* file holds exactly one line for each candidate whose probe returned 200
\* and no other line.
C10_StoreHoldsExactlyValid ==
    (CompletedRun /\ ProcessFailures = {}) =>
        /\ \A a \in Accounts :
              LinesOf(a) = IF a \in Submitted /\ fetch[a].res = 200 THEN 1 ELSE 0
        /\ Len(file) = Cardinality({a \in Submitted : fetch[a].res = 200})

\* the run ended with one candidate in the file and another, whose probe did
\* not return 200, left out
C10_Witness ==
    /\ CompletedRun /\ ProcessFailures = {}
    /\ Len(file) = 1
    /\ \E a \in account_numbers : fetch[a].res # 200

\* a string of exactly 16 decimal digits
SixteenDigits(s) == ~s.neg /\ s.digits = AccountWidth

\* C11: set_custom_range accepts, and stores the bounds, only when both
\* answers are numbers of 16 digits and start < end; in every other case,
\* a text that is no number included, it rejects and range_start and
\* range_end keep their previous values.
C11_RangeAcceptedOnlySixteenDigits ==
    [][pc = "set_custom_range" =>
          LET valid == /\ IsNumber(menu_call.a) /\ IsNumber(menu_call.b)
                       /\ SixteenDigits(Str(IntOf(menu_call.a)))
                       /\ SixteenDigits(Str(IntOf(menu_call.b)))
                       /\ Less(IntOf(menu_call.a), IntOf(menu_call.b))
          IN  /\ menu_call'.ok <=> valid
              /\ valid => /\ range_start' = IntOf(menu_call.a)
                          /\ range_end' = IntOf(menu_call.b)
              /\ ~valid => UNCHANGED <<range_start, range_end>>]_vars

\* C12: a run over a range with range_start < range_end submits to the fetch
\* pool exactly range_end - range_start + 1 candidates, both bounds included,
\* each once and in ascending order: every submission is of the least
\* candidate of the range not yet submitted, and when the as_completed loop
\* runs the whole range has been submitted.
C12_SubmitsWholeRangeAscending ==
    /\ []((pc \in {"drain", "ctl_err"} \/ CompletedRun) =>
            /\ Submitted = account_numbers
            /\ Cardinality(Submitted) = range_end.off - range_start.off + 1)
    /\ [][\A a \in Accounts :
            (fetch[a].st = "unsubmitted" /\ fetch'[a].st # "unsubmitted") =>
                /\ Less(range_start, range_end)
                /\ Submitted = {b \in account_numbers : b < a}
                /\ Submitted' = Submitted \cup {a}]_vars

\* the last candidate of a range of two or more has just been submitted
C12_Witness ==
    /\ pc = "drain" /\ drained = {}
    /\ Cardinality(Submitted) >= 2
    /\ range_end.off \in Submitted
    /\ fetch[range_end.off].st = "pending"

\* C13: in an uninterrupted run every fetch outcome that carries a status
\* code is submitted to the process pool exactly once, with that status, and
\* an outcome of a transport failure (None) never is; at the end of the run
\* process_response has run once for each probe that returned a status code
\* and for nothing else.
C13_StatusOutcomesProcessedOnce ==
    /\ [](\A a \in Accounts :
            proc[a].st # "none" =>
                /\ a \in drained
                /\ fetch[a].res \in StatusCodes
                /\ proc[a].status = fetch[a].res)
    /\ [](\A i \in 1 .. Len(process_queue) :
            /\ proc[process_queue[i]].st = "pending"
            /\ \A j \in 1 .. Len(process_queue) :
                  i # j => process_queue[i] # process_queue[j])
    /\ [](CompletedRun =>
            /\ \A a \in account_numbers :
                  proc[a].st = (IF fetch[a].res \in StatusCodes THEN "done" ELSE "none")
            /\ Cardinality(ProcDone) = IssuedChecked)
    /\ [][\A a \in Accounts :
            (proc'[a].st = "pending" /\ proc[a].st # "pending") =>
                /\ proc[a].st = "none"
                /\ Len(process_queue') = Len(process_queue) + 1]_vars

\* an uninterrupted run is over in which one probe failed in transport and
\* was not processed, and another returned a status and was
C13_Witness ==
    /\ CompletedRun
    /\ \E a \in account_numbers : fetch[a].res = None /\ proc[a].st = "none"
    /\ \E a \in account_numbers : fetch[a].res \in StatusCodes /\ proc[a].st = "done"

\* C14: process_response for a candidate never starts, and is never queued,
\* before fetch_response for that candidate has completed.  (That no order
\* holds between different candidates is the state of C14_Witness.)
C14_ProcessAfterOwnFetch ==
    \A a \in Accounts : proc[a].st # "none" => fetch[a].st = "done"

\* a candidate has been processed while the probe of one submitted before
\* it has not completed
C14_Witness ==
    \E a \in Submitted : \E b \in Submitted :
        /\ a < b
        /\ proc[b].st = "done"
        /\ fetch[a].st # "done"

\* C15: whatever set_custom_range calls were made, every candidate a run
\* submits to the fetch pool is a string of exactly 16 decimal digits, and
\* the candidates of one run have the same width.
C15_CandidatesSixteenDigits ==
    /\ \A a \in Submitted : SixteenDigits(Candidate(a))
    /\ \A a \in Submitted : \A b \in Submitted :
          StrLen(Candidate(a)) = StrLen(Candidate(b))

\* C16: a run_validation call declined at the confirmation leaves the file,
\* the four counters, start_time and is_running as they were (in a session
\* that has started no run: as they were at the start).
C16_DeclinedRunChangesNothing ==
    (pc = "menu" /\ start_time = None) =>
        /\ file = at_start.lines
        /\ valid_count = at_start.valid /\ checked_count = at_start.checked
        /\ error_count = at_start.errors /\ rate_limit_count = at_start.rate_limits
        /\ is_running = FALSE

\* C17: the summary of every uninterrupted run of a session in which no
\* append failed, the second and later ones included, reports a valid_count
\* equal to the number of lines in the file and a checked_count no larger
\* than the number of candidates of the run's range.
C17_SummaryDescribesItsRun ==
    (CompletedRun /\ ProcessFailures = {}) =>
        /\ summary[1].valid = Len(file)
        /\ summary[1].checked <= total_accounts

\* C18: within a run no counter ever takes a value lower than one it held
\* before, whatever the interleaving of the threads that increment it.
C18_CountersNeverDecrease ==
    [][/\ valid_count' >= valid_count
       /\ checked_count' >= checked_count
       /\ error_count' >= error_count
       /\ rate_limit_count' >= rate_limit_count]_vars

\* the nearest value of 1 .. limit
Nearest(n, limit) == IF n < 1 THEN 1 ELSE IF n > limit THEN limit ELSE n

\* C19: after any configure_threads calls fetch_workers is in [1,50] and
\* process_workers in [1,20]; a call with two integers stores each clamped to
\* the nearest bound, and a call in which either answer is no integer
\* changes neither setting.
C19_WorkersClamped ==
    /\ [](fetch_workers \in 1 .. FetchLimit /\ process_workers \in 1 .. ProcessLimit)
    /\ [][pc = "configure_threads" =>
            IF IsNumber(menu_call.a) /\ IsNumber(menu_call.b)
              THEN /\ fetch_workers' = Nearest(IntOf(menu_call.a), FetchLimit)
                   /\ process_workers' = Nearest(IntOf(menu_call.b), ProcessLimit)
              ELSE UNCHANGED <<fetch_workers, process_workers>>]_vars

\* a call with a valid fetch answer and a process answer that is no integer
\* is about to return, the settings having been changed by an earlier call
C19_Witness ==
    /\ pc = "configure_threads"
    /\ IsNumber(menu_call.a) /\ ~IsNumber(menu_call.b)
    /\ IntOf(menu_call.a) # fetch_workers
    /\ fetch_workers = FetchLimit /\ process_workers = 1

====
